---------------------------- MODULE Spec2Model ----------------------------
(***************************************************************************)
(* Model of src/src/components/VueHorizontalScrollbar.vue: the scroll      *)
(* state synchronisation, the click / drag / keyboard handlers, the        *)
(* throttled scroll listener and the mount / unmount lifecycle.            *)
(*                                                                         *)
(* JavaScript numbers are modelled as exact rationals <<n, d>> (d > 0, in  *)
(* lowest terms) extended with the three non-finite values of IEEE-754:    *)
(* <<1, 0>> is +Infinity, <<-1, 0>> is -Infinity and <<0, 0>> is NaN.      *)
(***************************************************************************)
EXTENDS Integers, Sequences, FiniteSets, TLC

(***************************************************************************)
(* JavaScript number arithmetic                                            *)
(***************************************************************************)
Abs(i) == IF i < 0 THEN -i ELSE i

Sign(i) == IF i < 0 THEN -1 ELSE IF i > 0 THEN 1 ELSE 0

RECURSIVE GCD(_, _)
GCD(a, b) == IF b = 0 THEN a ELSE GCD(b, a % b)

\* <<n, d>> with d >= 0 brought to lowest terms (d = 0: a non-finite value)
Norm(n, d) ==
    IF d = 0 THEN <<Sign(n), 0>>
    ELSE LET g == GCD(Abs(n), d) IN <<n \div g, d \div g>>

R(i) == <<i, 1>>

NaN == <<0, 0>>

PosInf == <<1, 0>>

NegInf == <<-1, 0>>

IsNaN(x) == x = NaN

IsFinite(x) == x[2] > 0

Neg(x) == <<-x[1], x[2]>>

Add(x, y) ==
    IF IsNaN(x) \/ IsNaN(y) THEN NaN
    ELSE IF ~IsFinite(x) /\ ~IsFinite(y) THEN (IF x = y THEN x ELSE NaN)
    ELSE IF ~IsFinite(x) THEN x
    ELSE IF ~IsFinite(y) THEN y
    ELSE Norm(x[1] * y[2] + y[1] * x[2], x[2] * y[2])

Sub(x, y) == Add(x, Neg(y))

Mul(x, y) ==
    IF IsNaN(x) \/ IsNaN(y) THEN NaN
    ELSE Norm(x[1] * y[1], x[2] * y[2])

\* 1 / y; a zero denominator is +0 in every division of the component
Recip(y) ==
    IF IsNaN(y) THEN NaN
    ELSE IF y[1] > 0 THEN <<y[2], y[1]>>
    ELSE IF y[1] < 0 THEN <<-y[2], -y[1]>>
    ELSE PosInf

Div(x, y) == Mul(x, Recip(y))

\* x < y; every comparison with NaN is false
Lt(x, y) ==
    IF IsNaN(x) \/ IsNaN(y) THEN FALSE
    ELSE IF ~IsFinite(x) /\ ~IsFinite(y) THEN x[1] < y[1]
    ELSE x[1] * y[2] < y[1] * x[2]

Le(x, y) == ~IsNaN(x) /\ ~IsNaN(y) /\ ~Lt(y, x)

MathMax(x, y) ==
    IF IsNaN(x) \/ IsNaN(y) THEN NaN ELSE IF Lt(x, y) THEN y ELSE x

MathMin(x, y) ==
    IF IsNaN(x) \/ IsNaN(y) THEN NaN ELSE IF Lt(y, x) THEN y ELSE x

\* x || dflt
OrElse(x, dflt) == IF IsNaN(x) \/ x = R(0) THEN dflt ELSE x

(***************************************************************************)
(* Props (withDefaults) and the bounds of the model                        *)
(***************************************************************************)
minScrollDistance == 50

scrollStep == 50

minThumbWidth == 30

throttleDelay == 16

\* one step of the clock, in ms
TickMs == 8


\* most scroll signals counted within one throttle window
MaxBurst == 2

\* most events from outside in one behaviour: user inputs (pointer, touch
\* and key events), calls of the exposed operations, changes of the disabled
\* prop, native scrolls and layout changes
MaxEvents == 3

(***************************************************************************)
(* The environment's inputs                                                *)
(***************************************************************************)
\* what a selector resolves to: an element, a query that matches nothing,
\* a resolver that returns nothing, a resolver that throws
Selectors == {"found", "queryNone", "fnNone", "fnThrows"}

\* DOM widths: target.clientWidth, content.scrollWidth, track.offsetWidth,
\* and the track's getBoundingClientRect().left
Layouts ==
    { [tW |-> 500, cW |-> 600, track |-> 300, left |-> 0],
      [tW |-> 550, cW |-> 600, track |-> 300, left |-> 0],
      [tW |-> 500, cW |-> 600, track |-> 30, left |-> 0] }

InitialLayout == [tW |-> 500, cW |-> 600, track |-> 300, left |-> 0]

\* clientX of pointer events
PointerXs == {125, 200}

\* offsets of native scrolling
NativeOffsets == {0, 50}

\* arguments of a direct scrollToPosition call
Positions == {R(-100), R(50), R(200)}

Keys == {"ArrowLeft", "ArrowRight", "Home", "End", "Tab"}

None == <<>>

(***************************************************************************)
(* State                                                                   *)
(***************************************************************************)
VARIABLES
    \* props
    targetSelector, contentSelector, autoShow, enableKeyboard, disabled,
    \* refs of the component
    scrollLeft, maxScroll, scrollPercent, showScrollbar, isVisible,
    isDragging, dragStartX, dragStartScrollLeft,
    targetElement, contentElement, resizeObserver,
    \* customScrollbarRef / customScrollbarThumbRef are set
    rendered,
    \* cached value of the computed thumbStyle
    thumbStyle,
    \* state of the lodash throttle wrapper
    thr,
    \* lifecycle: phase of the component, position of initializeTarget
    phase, initPc,
    \* DOM: listeners attached by the component, the target's offset,
    \* widths, queued scroll event and resize notification
    listeners, tScrollLeft, layout, scrollPending, resizePending,
    \* history: notifications emitted, values assigned to target.scrollLeft
    \* and the operation of the last step; the current throttle window
    emits, written, lastOp, lastArg, burst,
    \* events from outside so far
    events,
    \* inputs and results of the geometry functions applied on their own
    geo

propVars == <<targetSelector, contentSelector, autoShow, enableKeyboard, geo>>

stateVars == <<scrollLeft, maxScroll, scrollPercent, showScrollbar>>

dragVars == <<isDragging, dragStartX, dragStartScrollLeft>>

elemVars == <<targetElement, contentElement, resizeObserver, isVisible>>

lifeVars == <<phase, initPc>>

envVars == <<layout, scrollPending, resizePending>>

vars ==
    <<targetSelector, contentSelector, autoShow, enableKeyboard, disabled,
      scrollLeft, maxScroll, scrollPercent, showScrollbar, isVisible,
      isDragging, dragStartX, dragStartScrollLeft,
      targetElement, contentElement, resizeObserver, rendered, thumbStyle,
      thr, phase, initPc,
      listeners, tScrollLeft, layout, scrollPending, resizePending,
      emits, written, lastOp, lastArg, burst, events, geo>>

(***************************************************************************)
(* Geometry (thumbStyle) and Scroll State (updateScrollInfo)               *)
(***************************************************************************)
\* `${x}px`
FormatPx(x) == [num |-> x, unit |-> "px"]

\* Number.parseFloat of a `${x}px` string
ParseFloat(s) == s.num

thumbWidthOf(targetWidth, contentWidth, scrollbarWidth) ==
    MathMax(R(minThumbWidth), Mul(Div(targetWidth, contentWidth), scrollbarWidth))

thumbPositionOf(sl, ms, scrollbarWidth, thumbWidth) ==
    IF Lt(R(0), ms) THEN Mul(Div(sl, ms), Sub(scrollbarWidth, thumbWidth))
    ELSE R(0)

\* the computed's getter, on the element refs and DOM widths given
thumbStyleOf(te, ce, rd, lay, sl, ms) ==
    LET targetWidth == IF te THEN OrElse(R(lay.tW), R(0)) ELSE R(0)
        contentWidth == IF ce THEN OrElse(R(lay.cW), R(1)) ELSE R(1)
        scrollbarWidth == IF rd THEN OrElse(R(lay.track), R(0)) ELSE R(0)
        thumbWidth == thumbWidthOf(targetWidth, contentWidth, scrollbarWidth)
    IN [width |-> FormatPx(thumbWidth),
        left |-> FormatPx(thumbPositionOf(sl, ms, scrollbarWidth, thumbWidth))]

newMaxScrollOf(lay) == MathMax(R(0), Sub(R(lay.cW), R(lay.tW)))

\* a variant of newScrollPercentOf without the factor 100
scrollPercentAsRatio(newScrollLeft, newMaxScroll) ==
    IF Lt(R(0), newMaxScroll) THEN Div(newScrollLeft, newMaxScroll) ELSE R(0)

newScrollPercentOf(newScrollLeft, newMaxScroll) ==
    IF Lt(R(0), newMaxScroll) THEN Mul(Div(newScrollLeft, newMaxScroll), R(100))
    ELSE R(0)

\* a variant of showScrollbarOf that shows the indicator at the threshold
showScrollbarAtThreshold(auto, ms) ==
    IF auto THEN Le(R(minScrollDistance), ms) ELSE TRUE

showScrollbarOf(auto, ms) ==
    IF auto THEN Lt(R(minScrollDistance), ms) ELSE TRUE

\* the refs after updateScrollInfo() with both elements te, ce resolved or
\* not, the target at offset tsl and the DOM at layout lay
updateScrollInfoOf(te, ce, tsl, lay, old) ==
    IF ~te \/ ~ce THEN old
    ELSE LET newMaxScroll == newMaxScrollOf(lay)
         IN [scrollLeft |-> tsl,
             maxScroll |-> newMaxScroll,
             scrollPercent |-> newScrollPercentOf(tsl, newMaxScroll),
             showScrollbar |-> showScrollbarOf(autoShow, newMaxScroll)]

\* the 'scroll' notifications updateScrollInfo() emits
updateScrollInfoEmits(te, ce) == IF te /\ ce THEN <<"scroll">> ELSE <<>>

refs ==
    [scrollLeft |-> scrollLeft, maxScroll |-> maxScroll,
     scrollPercent |-> scrollPercent, showScrollbar |-> showScrollbar]

\* a variant of clampedPositionOf without the upper limit
clampedPositionNoUpper(position, ms) == MathMax(R(0), position)

clampedPositionOf(position, ms) == MathMax(R(0), MathMin(ms, position))

\* the DOM's scrollLeft setter: a non-finite value is 0 (the values the
\* component assigns lie within the target's scrolling range)
DomScrollLeft(x) == IF ~IsFinite(x) THEN R(0) ELSE x

(***************************************************************************)
(* lodash throttle(func, wait) = debounce(func, wait, {leading: true,      *)
(* maxWait: wait, trailing: true}).  Times are kept as ages in ms, cut at  *)
(* throttleDelay; -1 is undefined.                                         *)
(***************************************************************************)
ThrottleInit ==
    [timerId |-> -1, sinceLastCall |-> -1, sinceLastInvoke |-> throttleDelay,
     lastArgs |-> FALSE]

Older(age, ms) ==
    IF age < 0 THEN age
    ELSE IF age + ms > throttleDelay THEN throttleDelay ELSE age + ms

shouldInvoke(t) ==
    \/ t.sinceLastCall = -1
    \/ t.sinceLastCall >= throttleDelay
    \/ t.sinceLastInvoke >= throttleDelay

remainingWait(t) ==
    LET timeWaiting == throttleDelay - t.sinceLastCall
        maxLeft == throttleDelay - t.sinceLastInvoke
    IN IF timeWaiting < maxLeft THEN timeWaiting ELSE maxLeft

\* a variant of invokeFunc that keeps lastArgs
invokeFuncKeepArgs(t) == [t EXCEPT !.sinceLastInvoke = 0]

\* invokeFunc: lastArgs is cleared, lastInvokeTime = time
invokeFunc(t) == [t EXCEPT !.lastArgs = FALSE, !.sinceLastInvoke = 0]

\* debounced(): the wrapper's state after a call, and whether func ran
debounced(t) ==
    LET isInvoking == shouldInvoke(t)
        c == [t EXCEPT !.lastArgs = TRUE, !.sinceLastCall = 0]
    IN IF isInvoking
       THEN [thr |-> invokeFunc([c EXCEPT !.timerId = throttleDelay]),
             invoke |-> TRUE]
       ELSE [thr |-> IF c.timerId = -1 THEN [c EXCEPT !.timerId = throttleDelay]
                     ELSE c,
             invoke |-> FALSE]

\* timerExpired(): the trailing edge, or the timer set again
timerExpired(t) ==
    IF shouldInvoke(t)
    THEN IF t.lastArgs
         THEN [thr |-> invokeFunc([t EXCEPT !.timerId = -1]), invoke |-> TRUE]
         ELSE [thr |-> [t EXCEPT !.timerId = -1], invoke |-> FALSE]
    ELSE [thr |-> [t EXCEPT !.timerId = remainingWait(t)], invoke |-> FALSE]

(***************************************************************************)
(* Fragments shared by the handlers                                        *)
(***************************************************************************)
SetRefs(new) ==
    /\ scrollLeft' = new.scrollLeft
    /\ maxScroll' = new.maxScroll
    /\ scrollPercent' = new.scrollPercent
    /\ showScrollbar' = new.showScrollbar

\* the render that follows a handler: the computed thumbStyle is evaluated
\* again when one of the refs it read has changed
Render ==
    thumbStyle' =
        IF rendered' /\ ( \/ rendered' # rendered
                          \/ maxScroll' # maxScroll
                          \/ (scrollLeft' # scrollLeft /\ Lt(R(0), maxScroll))
                          \/ targetElement' # targetElement
                          \/ contentElement' # contentElement )
        THEN thumbStyleOf(targetElement', contentElement', rendered', layout',
                          scrollLeft', maxScroll')
        ELSE thumbStyle

\* scrollToPosition(position)
scrollToPosition(position) ==
    IF ~targetElement
    THEN written' = None /\ UNCHANGED <<tScrollLeft, scrollPending>>
    ELSE LET clampedPosition == clampedPositionOf(position, maxScroll)
         IN /\ written' = clampedPosition
            /\ tScrollLeft' = DomScrollLeft(clampedPosition)
            /\ scrollPending' = (scrollPending \/ tScrollLeft' # tScrollLeft)

NoWrite == written' = None /\ UNCHANGED tScrollLeft

BurstZero ==
    [n |-> 0, upd |-> 0, open |-> FALSE, drag |-> FALSE, late |-> FALSE]

\* a step of the component's own or of the browser's queues: the window's
\* counts are kept until the step after it has closed
KeepBurst ==
    /\ burst' = IF burst.open THEN burst ELSE BurstZero
    /\ UNCHANGED events

\* an event from outside
Event ==
    /\ events < MaxEvents
    /\ events' = events + 1
    /\ burst' = IF burst.open THEN burst ELSE BurstZero

Did(op, arg) == lastOp' = op /\ lastArg' = arg

getElement(selector) == selector = "found"

\* a variant of getElementEmits that reports an error for every selector
getElementEmitsAlways(selector) == <<"error">>

getElementEmits(selector) ==
    IF selector \in {"queryNone", "fnThrows"} THEN <<"error">> ELSE <<>>

(***************************************************************************)
(* Initial state: the component's setup has run, it is not mounted yet     *)
(***************************************************************************)
Constructed ==
    /\ disabled = FALSE
    /\ scrollLeft = R(0)
    /\ maxScroll = R(0)
    /\ scrollPercent = R(0)
    /\ showScrollbar = FALSE
    /\ isVisible = FALSE
    /\ isDragging = FALSE
    /\ dragStartX = 0
    /\ dragStartScrollLeft = R(0)
    /\ targetElement = FALSE
    /\ contentElement = FALSE
    /\ resizeObserver = "null"
    /\ rendered = FALSE
    /\ thumbStyle = thumbStyleOf(FALSE, FALSE, FALSE, InitialLayout, R(0), R(0))
    /\ thr = ThrottleInit
    /\ phase = "created"
    /\ initPc = "idle"
    /\ listeners = {}
    /\ tScrollLeft = R(0)
    /\ layout = InitialLayout
    /\ scrollPending = FALSE
    /\ resizePending = FALSE
    /\ emits = <<>>
    /\ written = None
    /\ lastOp = "setup"
    /\ lastArg = None
    /\ burst = BurstZero
    /\ events = 0

Init ==
    /\ targetSelector \in Selectors
    /\ contentSelector \in Selectors
    /\ autoShow \in BOOLEAN
    /\ enableKeyboard \in BOOLEAN
    /\ geo = [pc |-> "off"]
    /\ Constructed

(***************************************************************************)
(* Lifecycle                                                               *)
(***************************************************************************)
\* onMounted: initializeTarget() runs up to its await; the document keydown
\* listener is added
Mount ==
    /\ phase = "created"
    /\ phase' = "mounted"
    /\ initPc' = "awaiting"
    /\ listeners' = IF enableKeyboard THEN listeners \cup {"keydown"} ELSE listeners
    /\ emits' = <<>>
    /\ NoWrite
    /\ Did("mount", None)
    /\ UNCHANGED <<propVars, disabled, stateVars, dragVars, elemVars, rendered,
                   thumbStyle, thr, envVars>>
    /\ KeepBurst

\* initializeTarget() after await nextTick()
InitResume ==
    /\ initPc = "awaiting"
    /\ initPc' = "done"
    /\ LET te == getElement(targetSelector)
           ce == getElement(contentSelector)
           ok == te /\ ce
       IN /\ targetElement' = te
          /\ contentElement' = ce
          /\ listeners' = IF ok THEN listeners \cup {"scroll"} ELSE listeners
          /\ resizeObserver' = IF ok THEN "observing" ELSE resizeObserver
          /\ resizePending' = (ok \/ resizePending)
          /\ SetRefs(IF ok THEN updateScrollInfoOf(te, ce, tScrollLeft, layout, refs)
                     ELSE refs)
          /\ isVisible' = (ok \/ isVisible)
          /\ rendered' = (ok /\ phase = "mounted")
          /\ emits' = getElementEmits(targetSelector)
                      \o getElementEmits(contentSelector)
                      \o (IF ok THEN <<"scroll", "ready">> ELSE <<"error">>)
    /\ NoWrite
    /\ Did("initializeTarget", None)
    /\ UNCHANGED <<propVars, disabled, dragVars, thr, phase, layout,
                   scrollPending>>
    /\ KeepBurst
    /\ Render

\* cleanup()
cleanupListeners ==
    (IF targetElement THEN listeners \ {"scroll"} ELSE listeners)
        \ {"keydown", "mousemove", "mouseup", "touchmove", "touchend"}

\* onUnmounted: the control's elements are gone, cleanup() runs
Unmount ==
    /\ phase = "mounted"
    /\ phase' = "unmounted"
    /\ listeners' = cleanupListeners
    /\ resizeObserver' = IF resizeObserver # "null" THEN "disconnected" ELSE "null"
    /\ resizePending' = (resizePending /\ resizeObserver = "null")
    /\ rendered' = FALSE
    /\ emits' = <<>>
    /\ NoWrite
    /\ Did("cleanup", None)
    /\ UNCHANGED <<propVars, disabled, stateVars, dragVars, targetElement,
                   contentElement, isVisible, thumbStyle, thr, initPc, layout,
                   scrollPending>>
    /\ KeepBurst

(***************************************************************************)
(* Click, drag and keyboard handlers                                       *)
(***************************************************************************)
\* a variant of offsetFromClick that measures from the thumb's left edge
offsetFromClickAtEdge(clientX, lay, style, ms) ==
    LET clickX == Sub(R(clientX), R(lay.left))
        scrollbarWidth == R(lay.track)
        thumbWidth == ParseFloat(style.width)
    IN Mul(Div(clickX, Sub(scrollbarWidth, thumbWidth)), ms)

\* targetScrollLeft of handleScrollbarClick
offsetFromClick(clientX, lay, style, ms) ==
    LET clickX == Sub(R(clientX), R(lay.left))
        scrollbarWidth == R(lay.track)
        thumbWidth == ParseFloat(style.width)
    IN Mul(Div(Sub(clickX, Div(thumbWidth, R(2))),
               Sub(scrollbarWidth, thumbWidth)), ms)

\* newScrollLeft of updateDragPosition
offsetFromDrag(clientX, startX, startScrollLeft, lay, style, ms) ==
    LET deltaX == Sub(R(clientX), R(startX))
        scrollbarWidth == R(lay.track)
        thumbWidth == ParseFloat(style.width)
        scrollRatio == Div(deltaX, Sub(scrollbarWidth, thumbWidth))
    IN Add(startScrollLeft, Mul(scrollRatio, ms))

\* a click on the track (onThumb: the event's target is the thumb)
handleScrollbarClick(clientX, onThumb) ==
    /\ Event
    /\ rendered
    /\ IF disabled \/ onThumb
       THEN /\ NoWrite
            /\ emits' = <<>>
            /\ UNCHANGED scrollPending
       ELSE /\ scrollToPosition(offsetFromClick(clientX, layout, thumbStyle, maxScroll))
            /\ emits' = <<"click">>
    /\ Did("click", None)
    /\ UNCHANGED <<propVars, disabled, stateVars, dragVars, elemVars, rendered,
                   thumbStyle, thr, lifeVars, listeners, layout, resizePending>>

\* startDragging(clientX), the document listeners of the gesture, dragStart
StartDrag(clientX, moveL, endL) ==
    IF disabled
    THEN /\ emits' = <<>>
         /\ UNCHANGED <<dragVars, listeners>>
    ELSE /\ isDragging' = TRUE
         /\ dragStartX' = clientX
         /\ dragStartScrollLeft' = scrollLeft
         /\ listeners' = listeners \cup {moveL, endL}
         /\ emits' = <<"dragStart">>

handleThumbMouseDown(clientX) ==
    /\ Event
    /\ rendered
    /\ StartDrag(clientX, "mousemove", "mouseup")
    /\ NoWrite
    /\ Did("mousedown", None)
    /\ UNCHANGED <<propVars, disabled, stateVars, elemVars, rendered, thumbStyle,
                   thr, lifeVars, envVars>>

handleThumbTouchStart(clientX) ==
    /\ Event
    /\ rendered
    /\ StartDrag(clientX, "touchmove", "touchend")
    /\ NoWrite
    /\ Did("touchstart", None)
    /\ UNCHANGED <<propVars, disabled, stateVars, elemVars, rendered, thumbStyle,
                   thr, lifeVars, envVars>>

\* handleMouseMove / handleTouchMove: updateDragPosition(clientX)
DragMove(clientX) ==
    IF ~isDragging \/ ~rendered
    THEN /\ NoWrite
         /\ emits' = <<>>
         /\ UNCHANGED <<stateVars, scrollPending>>
    ELSE /\ scrollToPosition(offsetFromDrag(clientX, dragStartX, dragStartScrollLeft,
                                            layout, thumbStyle, maxScroll))
         /\ SetRefs(updateScrollInfoOf(targetElement, contentElement, tScrollLeft',
                                       layout, refs))
         /\ emits' = updateScrollInfoEmits(targetElement, contentElement)

handleMouseMove(clientX) ==
    /\ Event
    /\ "mousemove" \in listeners
    /\ DragMove(clientX)
    /\ Did("mousemove", clientX)
    /\ UNCHANGED <<propVars, disabled, dragVars, elemVars, rendered, thr,
                   lifeVars, listeners, layout, resizePending>>
    /\ Render

handleTouchMove(clientX) ==
    /\ Event
    /\ "touchmove" \in listeners
    /\ DragMove(clientX)
    /\ Did("touchmove", clientX)
    /\ UNCHANGED <<propVars, disabled, dragVars, elemVars, rendered, thr,
                   lifeVars, listeners, layout, resizePending>>
    /\ Render

\* stopDragging(), the gesture's listeners removed, dragEnd
StopDrag(moveL, endL) ==
    /\ Event
    /\ isDragging' = FALSE
    /\ listeners' = listeners \ {moveL, endL}
    /\ emits' = <<"dragEnd">>
    /\ NoWrite
    /\ UNCHANGED <<propVars, disabled, stateVars, dragStartX, dragStartScrollLeft,
                   elemVars, rendered, thumbStyle, thr, lifeVars, envVars>>

handleMouseUp ==
    /\ "mouseup" \in listeners
    /\ StopDrag("mousemove", "mouseup")
    /\ Did("mouseup", None)

handleTouchEnd ==
    /\ "touchend" \in listeners
    /\ StopDrag("touchmove", "touchend")
    /\ Did("touchend", None)

\* a variant of keyHandled without the disabled check
keyHandledWhenDisabled(key) ==
    /\ enableKeyboard
    /\ targetElement
    /\ key \in {"ArrowLeft", "ArrowRight", "Home", "End"}

\* whether handleKeyDown handles the key
keyHandled(key) ==
    /\ enableKeyboard
    /\ targetElement
    /\ ~disabled
    /\ key \in {"ArrowLeft", "ArrowRight", "Home", "End"}

\* the position handleKeyDown asks for
keyPosition(key) ==
    CASE key = "ArrowLeft" -> Sub(scrollLeft, R(scrollStep))
      [] key = "ArrowRight" -> Add(scrollLeft, R(scrollStep))
      [] key = "Home" -> R(0)
      [] key = "End" -> maxScroll

\* the handlers a keydown event reaches: the thumb's @keydown when the
\* thumb has the focus, and the document's listener
keyHandlers(focus) ==
    (IF focus THEN 1 ELSE 0) + (IF "keydown" \in listeners THEN 1 ELSE 0)

\* a keydown event in the document, the focus on the thumb or elsewhere;
\* handleKeyDown runs once per handler
handleKeyDown(key, focus) ==
    /\ Event
    /\ phase = "mounted"
    /\ focus => rendered
    /\ IF keyHandlers(focus) > 0 /\ keyHandled(key)
       THEN /\ scrollToPosition(keyPosition(key))
            /\ emits' = [i \in 1..keyHandlers(focus) |-> "keydown"]
       ELSE /\ NoWrite
            /\ emits' = <<>>
            /\ UNCHANGED scrollPending
    /\ Did("key", <<key, focus>>)
    /\ UNCHANGED <<propVars, disabled, stateVars, dragVars, elemVars, rendered,
                   thumbStyle, thr, lifeVars, listeners, layout, resizePending>>

(***************************************************************************)
(* Observation: the throttled scroll listener and the resize watcher       *)
(***************************************************************************)
\* the throttled callback: updateScrollInfo() unless a drag is active
ThrottledRun(invoke) ==
    IF invoke /\ ~isDragging
    THEN /\ SetRefs(updateScrollInfoOf(targetElement, contentElement, tScrollLeft,
                                       layout, refs))
         /\ emits' = updateScrollInfoEmits(targetElement, contentElement)
    ELSE /\ UNCHANGED stateVars
         /\ emits' = <<>>

Recomputes(invoke) ==
    IF invoke /\ ~isDragging /\ targetElement /\ contentElement THEN 1 ELSE 0

\* the target's queued scroll event is dispatched
ScrollSignal ==
    /\ scrollPending
    /\ scrollPending' = FALSE
    /\ IF "scroll" \in listeners
       THEN LET res == debounced(thr)
            IN /\ thr.timerId # -1 => burst.n < MaxBurst
               /\ thr' = res.thr
               /\ ThrottledRun(res.invoke)
               /\ burst' = IF thr.timerId = -1
                           THEN [n |-> 1, upd |-> Recomputes(res.invoke),
                                 open |-> TRUE, drag |-> isDragging,
                                 late |-> FALSE]
                           ELSE [burst EXCEPT
                                   !.n = @ + 1,
                                   !.upd = @ + Recomputes(res.invoke),
                                   !.drag = @ \/ isDragging,
                                   !.late = @ \/ thr.timerId = 0]
               /\ UNCHANGED events
       ELSE /\ emits' = <<>>
            /\ UNCHANGED <<thr, stateVars>>
            /\ KeepBurst
    /\ NoWrite
    /\ Did("scroll", None)
    /\ UNCHANGED <<propVars, disabled, dragVars, elemVars, rendered, lifeVars,
                   listeners, layout, resizePending>>
    /\ Render

\* the throttle's timer fires
TimerFire ==
    /\ thr.timerId = 0
    /\ LET res == timerExpired(thr)
       IN /\ thr' = res.thr
          /\ ThrottledRun(res.invoke)
          /\ burst' = [burst EXCEPT
                         !.upd = @ + Recomputes(res.invoke),
                         !.open = res.thr.timerId # -1,
                         !.drag = @ \/ isDragging]
          /\ UNCHANGED events
    /\ NoWrite
    /\ Did("timer", None)
    /\ UNCHANGED <<propVars, disabled, dragVars, elemVars, rendered, lifeVars,
                   listeners, envVars>>
    /\ Render

\* TickMs pass; a timer that is due fires first
Tick ==
    /\ thr.timerId # 0
    /\ thr' = [thr EXCEPT
                 !.timerId = IF @ > TickMs THEN @ - TickMs ELSE IF @ > 0 THEN 0 ELSE @,
                 !.sinceLastCall = Older(@, TickMs),
                 !.sinceLastInvoke = Older(@, TickMs)]
    /\ thr' # thr
    /\ emits' = <<>>
    /\ NoWrite
    /\ Did("env", None)
    /\ UNCHANGED <<propVars, disabled, stateVars, dragVars, elemVars, rendered,
                   thumbStyle, lifeVars, listeners, envVars>>
    /\ KeepBurst

\* the user scrolls the target natively
NativeScroll(x) ==
    /\ Event
    /\ R(x) # tScrollLeft
    /\ tScrollLeft' = R(x)
    /\ scrollPending' = TRUE
    /\ written' = None
    /\ emits' = <<>>
    /\ Did("env", None)
    /\ UNCHANGED <<propVars, disabled, stateVars, dragVars, elemVars, rendered,
                   thumbStyle, thr, lifeVars, listeners, layout, resizePending>>

\* the page's layout changes; the resize watcher sees the target's and the
\* content's size
Resize(lay) ==
    /\ Event
    /\ lay # layout
    /\ layout' = lay
    /\ resizePending' =
           \/ resizePending
           \/ resizeObserver = "observing" /\ <<lay.tW, lay.cW>> # <<layout.tW, layout.cW>>
    /\ emits' = <<>>
    /\ NoWrite
    /\ Did("env", None)
    /\ UNCHANGED <<propVars, disabled, stateVars, dragVars, elemVars, rendered,
                   thumbStyle, thr, lifeVars, listeners, scrollPending>>

\* the ResizeObserver's callback: updateScrollInfo(), not throttled
ResizeNotify ==
    /\ resizePending
    /\ resizeObserver = "observing"
    /\ resizePending' = FALSE
    /\ SetRefs(updateScrollInfoOf(targetElement, contentElement, tScrollLeft,
                                  layout, refs))
    /\ emits' = updateScrollInfoEmits(targetElement, contentElement)
    /\ NoWrite
    /\ Did("resize", None)
    /\ UNCHANGED <<propVars, disabled, dragVars, elemVars, rendered, thr,
                   lifeVars, listeners, layout, scrollPending>>
    /\ KeepBurst
    /\ Render

(***************************************************************************)
(* The exposed operations and the disabled prop                            *)
(***************************************************************************)
ApiScrollToPosition(position) ==
    /\ Event
    /\ phase = "mounted"
    /\ scrollToPosition(position)
    /\ emits' = <<>>
    /\ Did("scrollToPosition", position)
    /\ UNCHANGED <<propVars, disabled, stateVars, dragVars, elemVars, rendered,
                   thumbStyle, thr, lifeVars, listeners, layout, resizePending>>

ApiScrollToEnd ==
    /\ Event
    /\ phase = "mounted"
    /\ scrollToPosition(maxScroll)
    /\ emits' = <<>>
    /\ Did("scrollToEnd", None)
    /\ UNCHANGED <<propVars, disabled, stateVars, dragVars, elemVars, rendered,
                   thumbStyle, thr, lifeVars, listeners, layout, resizePending>>

ApiUpdateScrollInfo ==
    /\ Event
    /\ phase = "mounted"
    /\ SetRefs(updateScrollInfoOf(targetElement, contentElement, tScrollLeft,
                                  layout, refs))
    /\ emits' = updateScrollInfoEmits(targetElement, contentElement)
    /\ NoWrite
    /\ Did("updateScrollInfo", None)
    /\ UNCHANGED <<propVars, disabled, dragVars, elemVars, rendered, thr,
                   lifeVars, listeners, envVars>>
    /\ Render

\* the host changes the disabled prop
SetDisabled(b) ==
    /\ Event
    /\ b # disabled
    /\ phase # "unmounted"
    /\ disabled' = b
    /\ emits' = <<>>
    /\ NoWrite
    /\ Did("env", None)
    /\ UNCHANGED <<propVars, stateVars, dragVars, elemVars, rendered, thumbStyle,
                   thr, lifeVars, listeners, envVars>>

Next ==
    \/ Mount
    \/ InitResume
    \/ Unmount
    \/ \E x \in PointerXs, onThumb \in BOOLEAN : handleScrollbarClick(x, onThumb)
    \/ \E x \in PointerXs : handleThumbMouseDown(x)
    \/ \E x \in PointerXs : handleThumbTouchStart(x)
    \/ \E x \in PointerXs : handleMouseMove(x)
    \/ \E x \in PointerXs : handleTouchMove(x)
    \/ handleMouseUp
    \/ handleTouchEnd
    \/ \E key \in Keys, focus \in BOOLEAN : handleKeyDown(key, focus)
    \/ ScrollSignal
    \/ TimerFire
    \/ Tick
    \/ \E x \in NativeOffsets : NativeScroll(x)
    \/ \E lay \in Layouts : Resize(lay)
    \/ ResizeNotify
    \/ \E position \in Positions : ApiScrollToPosition(position)
    \/ ApiScrollToEnd
    \/ ApiUpdateScrollInfo
    \/ \E b \in BOOLEAN : SetDisabled(b)

Spec == Init /\ [][Next]_vars

\* the steps of ScrollSignal and of TimerFire, by their guards and the
\* operation they record
ScrollDelivered ==
    /\ scrollPending
    /\ ("scroll" \in listeners /\ thr.timerId # -1) => burst.n < MaxBurst
    /\ lastOp' = "scroll"

TimerFired ==
    /\ thr.timerId = 0
    /\ lastOp' = "timer"

\* the elements resolve and both features are on
FairInit ==
    /\ Init
    /\ targetSelector = "found"
    /\ contentSelector = "found"
    /\ autoShow
    /\ enableKeyboard

\* the browser delivers every queued scroll event, time passes and a timer
\* that is due fires
FairSpec ==
    /\ FairInit
    /\ [][Next]_vars
    /\ WF_lastOp(ScrollDelivered)
    /\ WF_lastOp(TimerFired)
    /\ WF_vars(Tick)

(***************************************************************************)
(* The geometry functions on their own: the inputs are drawn in the        *)
(* initial state, the actions apply thumbStyle and the click and drag      *)
(* conversions to them                                                     *)
(***************************************************************************)
GeoLayouts ==
    { [tW |-> tw, cW |-> cw, track |-> tr, left |-> 0] :
        tw \in {100, 500}, cw \in {300, 600, 1500}, tr \in {20, 30, 300} }

\* offsets within [0, ms]
GeoOffsets(ms) == {R(0), Div(ms, R(2)), ms}

mainVars ==
    <<targetSelector, contentSelector, autoShow, enableKeyboard, disabled,
      scrollLeft, maxScroll, scrollPercent, showScrollbar, isVisible,
      isDragging, dragStartX, dragStartScrollLeft,
      targetElement, contentElement, resizeObserver, rendered, thumbStyle,
      thr, phase, initPc,
      listeners, tScrollLeft, layout, scrollPending, resizePending,
      emits, written, lastOp, lastArg, burst, events>>

GeoInit ==
    /\ targetSelector = "found"
    /\ contentSelector = "found"
    /\ autoShow = TRUE
    /\ enableKeyboard = TRUE
    /\ Constructed
    /\ \E lay \in GeoLayouts :
         \E s1 \in GeoOffsets(newMaxScrollOf(lay)), s2 \in GeoOffsets(newMaxScrollOf(lay)) :
            /\ Le(s1, s2)
            /\ geo = [pc |-> "input", lay |-> lay, ms |-> newMaxScrollOf(lay),
                      s1 |-> s1, s2 |-> s2]

\* thumbStyle for the content at offset s1 and at offset s2
GeoThumb ==
    /\ geo.pc = "input"
    /\ LET st1 == thumbStyleOf(TRUE, TRUE, TRUE, geo.lay, geo.s1, geo.ms)
           st2 == thumbStyleOf(TRUE, TRUE, TRUE, geo.lay, geo.s2, geo.ms)
       IN geo' = [pc |-> "thumb", lay |-> geo.lay, ms |-> geo.ms,
                  s1 |-> geo.s1, s2 |-> geo.s2,
                  width |-> ParseFloat(st1.width),
                  left1 |-> ParseFloat(st1.left),
                  left2 |-> ParseFloat(st2.left)]
    /\ UNCHANGED mainVars

\* pointer coordinates of the clicks and drags on the track
GeoPointerXs == {15, 50, 125, 150, 175, 250}

\* handleScrollbarClick at clientX, the content at offset s1
GeoClick(clientX) ==
    /\ geo.pc = "input"
    /\ LET st == thumbStyleOf(TRUE, TRUE, TRUE, geo.lay, geo.s1, geo.ms)
           targetScrollLeft == offsetFromClick(clientX, geo.lay, st, geo.ms)
           clampedPosition == clampedPositionOf(targetScrollLeft, geo.ms)
       IN geo' = [pc |-> "click", lay |-> geo.lay, ms |-> geo.ms,
                  s1 |-> geo.s1, x |-> clientX,
                  width |-> ParseFloat(st.width),
                  left1 |-> ParseFloat(st.left),
                  raw |-> targetScrollLeft,
                  written |-> clampedPosition,
                  applied |-> DomScrollLeft(clampedPosition)]
    /\ UNCHANGED mainVars

\* updateDragPosition at clientX of a drag started at startX with the
\* content at offset s1; left2 is the thumb's left at offset s2
GeoDrag(startX, clientX) ==
    /\ geo.pc = "input"
    /\ LET st == thumbStyleOf(TRUE, TRUE, TRUE, geo.lay, geo.s1, geo.ms)
           st2 == thumbStyleOf(TRUE, TRUE, TRUE, geo.lay, geo.s2, geo.ms)
           newScrollLeft == offsetFromDrag(clientX, startX, geo.s1, geo.lay, st,
                                           geo.ms)
           clampedPosition == clampedPositionOf(newScrollLeft, geo.ms)
       IN geo' = [pc |-> "drag", lay |-> geo.lay, ms |-> geo.ms,
                  s1 |-> geo.s1, s2 |-> geo.s2,
                  startX |-> startX, x |-> clientX,
                  width |-> ParseFloat(st.width),
                  left1 |-> ParseFloat(st.left),
                  left2 |-> ParseFloat(st2.left),
                  raw |-> newScrollLeft,
                  written |-> clampedPosition,
                  applied |-> DomScrollLeft(clampedPosition)]
    /\ UNCHANGED mainVars

GeoNext ==
    \/ GeoThumb
    \/ \E clientX \in GeoPointerXs : GeoClick(clientX)
    \/ \E startX \in GeoPointerXs, clientX \in GeoPointerXs :
          GeoDrag(startX, clientX)

GeoSpec == GeoInit /\ [][GeoNext]_vars

(***************************************************************************)
(* Properties                                                              *)
(***************************************************************************)
Emitted(e) == \E i \in DOMAIN emits : emits[i] = e

EmittedNext(e) == \E i \in DOMAIN emits' : emits'[i] = e

HandledKeys == {"ArrowLeft", "ArrowRight", "Home", "End"}

\* C1: after cleanup has run, at whatever point of the lifecycle, the
\* scroll listener, the resize watcher, the document keydown listener and
\* the document mousemove/mouseup/touchmove/touchend listeners are all
\* detached, and none is attached again later.
C1_NoDanglingListeners ==
    phase = "unmounted" => (listeners = {} /\ resizeObserver # "observing")

C3_SecondDragStartIsNoOp ==
    [][ /\ (isDragging /\ lastOp' \in {"mousedown", "touchstart"}) =>
              /\ dragStartX' = dragStartX
              /\ dragStartScrollLeft' = dragStartScrollLeft
              /\ emits' = <<>>
        /\ lastOp' \in {"mouseup", "touchend"} => ~isDragging' ]_vars

\* the throttle window of the last burst has closed, no drag was active
\* and every signal of it came before the window's timer was due
BurstDone ==
    /\ ~burst.open
    /\ burst.n >= 1
    /\ ~burst.drag
    /\ ~burst.late

\* C4 as stated: a burst of N >= 1 scroll signals within one throttle
\* window, no drag active, causes exactly one recomputation, which uses the
\* scrollLeft observed last.
C4_ExactlyOnePerBurst ==
    /\ BurstDone => burst.upd = 1
    /\ (lastOp = "timer" /\ Emitted("scroll")) => scrollLeft = tScrollLeft

\* C4: a burst of N >= 1 scroll signals within one throttle window, no drag
\* active, causes at least one and at most two recomputations (one at the
\* first signal when the throttle was idle, one when the window's timer
\* fires), exactly one for N = 1; the recomputation at the timer uses the
\* target's scrollLeft at that time.
C4_AtMostTwoPerBurst ==
    /\ BurstDone => (burst.upd \in {1, 2} /\ (burst.n = 1 => burst.upd = 1))
    /\ (lastOp = "timer" /\ Emitted("scroll")) => scrollLeft = tScrollLeft

\* a burst of two signals has caused two recomputations
C4_Witness ==
    /\ BurstDone
    /\ lastOp = "timer"
    /\ burst.n = 2
    /\ burst.upd = 2
    /\ scrollLeft = tScrollLeft

\* C5: with disabled set, a click on the track, a pointer-down or
\* touch-start on the thumb and a key leave the target's offset and the
\* drag session unchanged, install no document listeners and emit nothing.
C5_DisabledIsInert ==
    [][ (disabled /\ lastOp' \in {"click", "mousedown", "touchstart", "key"}) =>
            /\ tScrollLeft' = tScrollLeft
            /\ written' = None
            /\ UNCHANGED dragVars
            /\ listeners' = listeners
            /\ emits' = <<>> ]_vars

\* a pointer-down on the thumb that was refused, in the middle of a drag
C5_Witness ==
    /\ disabled
    /\ isDragging
    /\ lastOp = "mousedown"
    /\ emits = <<>>

\* C6: in every reachable state scrollPercent = (maxScroll > 0 ?
\* scrollLeft / maxScroll * 100 : 0) with maxScroll >= 0, and scrollPercent
\* lies in [0, 100] whenever the stored offset lies in [0, maxScroll].
C6_ScrollStateInvariant ==
    /\ Le(R(0), maxScroll)
    /\ scrollPercent = IF Lt(R(0), maxScroll)
                       THEN Div(Mul(scrollLeft, R(100)), maxScroll)
                       ELSE R(0)
    /\ (Le(R(0), scrollLeft) /\ Le(scrollLeft, maxScroll)) =>
           (Le(R(0), scrollPercent) /\ Le(scrollPercent, R(100)))

\* the target observed half way through its range
C6_Witness ==
    /\ isVisible
    /\ maxScroll = R(100)
    /\ scrollLeft = R(50)
    /\ scrollPercent = R(50)

\* showScrollbar follows the visibility rule
VisibilityRule ==
    IF autoShow THEN showScrollbar <=> Lt(R(minScrollDistance), maxScroll)
    ELSE showScrollbar

\* C7 as stated: in every reachable state showScrollbar is true when
\* autoShow is disabled, and with autoShow enabled it is true exactly when
\* maxScroll > minScrollDistance.
C7_VisibilityEverywhere == VisibilityRule

\* C7: in every reachable state in which the component is marked visible
\* (the elements are resolved and the scroll state has been computed),
\* showScrollbar is true when autoShow is disabled, and with autoShow
\* enabled it is true exactly when maxScroll > minScrollDistance.
C7_VisibilityWhenVisible == isVisible => VisibilityRule

\* autoShow, maxScroll at the threshold: the indicator is hidden
C7_Witness ==
    /\ isVisible
    /\ autoShow
    /\ maxScroll = R(minScrollDistance)
    /\ ~showScrollbar

\* C8: when the target or the content element cannot be resolved, an error
\* is emitted, no scroll listener and no resize watcher is attached, no
\* ready and no scroll is emitted, the component is never marked visible,
\* and scrollToPosition / updateScrollInfo change nothing.
C8_FailureHaltsSetup ==
    [][ ~(getElement(targetSelector) /\ getElement(contentSelector)) =>
            ( /\ (lastOp' = "initializeTarget") => EmittedNext("error")
              /\ "scroll" \notin listeners'
              /\ resizeObserver' = "null"
              /\ ~EmittedNext("ready")
              /\ ~EmittedNext("scroll")
              /\ ~isVisible'
              /\ (lastOp' \in {"scrollToPosition", "scrollToEnd",
                               "updateScrollInfo"}) =>
                     ( /\ written' = None
                       /\ tScrollLeft' = tScrollLeft
                       /\ refs' = refs ) ) ]_vars

\* C9: for every layout and every scrollLeft in [0, maxScroll] the thumb's
\* left is >= 0, does not decrease as scrollLeft grows, and left + width
\* stays within the track.
C9_ThumbWithinTrack ==
    geo.pc = "thumb" =>
        /\ Le(R(0), geo.left1)
        /\ Le(geo.left1, geo.left2)
        /\ Le(Add(geo.left2, geo.width), R(geo.lay.track))

\* C10: a key event changes the target's offset or emits keydown only if
\* the control has the focus, enableKeyboard is true, disabled is false and
\* the key is one of ArrowLeft/ArrowRight/Home/End.
C10_KeyboardGating ==
    [][ lastOp' = "key" =>
            ( (tScrollLeft' # tScrollLeft \/ emits' # <<>>) =>
                  /\ lastArg'[2]
                  /\ enableKeyboard
                  /\ ~disabled
                  /\ lastArg'[1] \in HandledKeys ) ]_vars

\* C11: after cleanup has run no drag is active, also when cleanup comes
\* between a pointer/touch-down and the matching up/end.
C11_CleanupClearsDrag ==
    phase = "unmounted" => ~isDragging

\* C12: while a drag is active neither a scroll signal, nor a throttled
\* callback at its timer, nor a size-change notification recomputes the
\* scroll state or emits scroll; only drag moves recompute.
C12_DragGatesObservation ==
    [][ (isDragging /\ lastOp' \in {"scroll", "timer", "resize"}) =>
            (refs' = refs /\ emits' = <<>>) ]_vars

\* the thumb is exactly as wide as the track
GeoDegenerate == geo.width = R(geo.lay.track)

\* C13: with trackWidth = thumbWidth a track click applies offset 0 and a
\* drag move applies the drag's startScrollLeft; for every geometry and
\* pointer coordinate the offset written is a finite number in [0, maxScroll].
C13_DegenerateGeometryGuarded ==
    /\ (geo.pc = "click" /\ GeoDegenerate) => geo.applied = R(0)
    /\ (geo.pc = "drag" /\ GeoDegenerate) => geo.applied = geo.s1
    /\ geo.pc \in {"click", "drag"} =>
          /\ IsFinite(geo.raw)
          /\ IsFinite(geo.written)
          /\ Le(R(0), geo.written)
          /\ Le(geo.written, geo.ms)

\* trackWidth > thumbWidth and maxScroll > 0
GeoRegular == Lt(geo.width, R(geo.lay.track)) /\ Lt(R(0), geo.ms)

\* C17: with trackWidth > thumbWidth and maxScroll > 0, a click at
\* x = thumbLeft(s) + thumbWidth / 2 yields offset s, and a drag from the
\* thumb position of s0 by deltaX = thumbLeft(s1) - thumbLeft(s0) yields s1.
C17_ClickDragRoundTrip ==
    /\ ( /\ geo.pc = "click"
         /\ GeoRegular
         /\ R(geo.x) = Add(geo.left1, Div(geo.width, R(2))) )
       => (geo.raw = geo.s1 /\ geo.applied = geo.s1)
    /\ ( /\ geo.pc = "drag"
         /\ GeoRegular
         /\ R(geo.x - geo.startX) = Sub(geo.left2, geo.left1) )
       => (geo.raw = geo.s2 /\ geo.applied = geo.s2)

\* a click in the middle of the thumb of a content scrolled half way
C17_WitnessClick ==
    /\ geo.pc = "click"
    /\ GeoRegular
    /\ Lt(R(0), geo.s1)
    /\ Lt(geo.s1, geo.ms)
    /\ R(geo.x) = Add(geo.left1, Div(geo.width, R(2)))
    /\ geo.applied = geo.s1

\* C14: each handled key moves the target relative to the target's actual
\* offset: ArrowRight to min(maxScroll, offset + scrollStep), ArrowLeft to
\* max(0, offset - scrollStep), Home to 0 and End to maxScroll, also when
\* the key arrives before the next recomputation of the scroll state.
C14_KeysRelativeToTarget ==
    [][ (lastOp' = "key" /\ emits' # <<>>) =>
            tScrollLeft' =
                CASE lastArg'[1] = "ArrowRight" ->
                        MathMin(maxScroll, Add(tScrollLeft, R(scrollStep)))
                  [] lastArg'[1] = "ArrowLeft" ->
                        MathMax(R(0), Sub(tScrollLeft, R(scrollStep)))
                  [] lastArg'[1] = "Home" -> R(0)
                  [] lastArg'[1] = "End" -> maxScroll ]_vars

\* clamp(0, ms, x)
ClampTo(x, ms) == IF Lt(x, R(0)) THEN R(0) ELSE IF Lt(ms, x) THEN ms ELSE x

\* C15: after every pointer/touch move processed while dragging, the target
\* offset equals clamp(0, maxScroll, startScrollLeft + deltaX /
\* (trackWidth - thumbWidth) * maxScroll), deltaX measured from dragStartX
\* (the drag's start offset when trackWidth = thumbWidth); in the same step
\* the stored scrollLeft equals the target's offset and a scroll notification
\* is emitted; a move while not dragging changes nothing.
C15_DragMoveTracks ==
    [][ lastOp' \in {"mousemove", "touchmove"} =>
            IF isDragging
            THEN /\ tScrollLeft' =
                      IF R(layout.track) = ParseFloat(thumbStyle.width)
                      THEN dragStartScrollLeft
                      ELSE ClampTo(Add(dragStartScrollLeft,
                                  Div(Mul(R(lastArg' - dragStartX), maxScroll),
                                      Sub(R(layout.track),
                                          ParseFloat(thumbStyle.width)))),
                              maxScroll)
                 /\ scrollLeft' = tScrollLeft'
                 /\ emits' = <<"scroll">>
            ELSE /\ tScrollLeft' = tScrollLeft
                 /\ refs' = refs
                 /\ emits' = <<>> ]_vars

\* C16: when both elements resolve, initializeTarget emits exactly the scroll
\* notification of one recomputation followed by ready, with the scroll
\* listener and the resize watcher attached, the scroll state recomputed and
\* the component marked visible, and no error; ready is emitted by no other
\* step, and the resolution runs once per activation.
C16_ReadyOrdering ==
    [][ /\ (lastOp' = "initializeTarget"
              /\ getElement(targetSelector) /\ getElement(contentSelector))
           => /\ emits' = <<"scroll", "ready">>
              /\ "scroll" \in listeners'
              /\ resizeObserver' = "observing"
              /\ scrollLeft' = tScrollLeft'
              /\ maxScroll' = newMaxScrollOf(layout')
              /\ isVisible'
        /\ EmittedNext("ready")
           => /\ lastOp' = "initializeTarget"
              /\ initPc = "awaiting"
              /\ ~EmittedNext("error")
        /\ initPc = "done" => initPc' = "done" ]_vars

\* a resolution that succeeded while mounted
C16_Witness ==
    /\ lastOp = "initializeTarget"
    /\ phase = "mounted"
    /\ emits = <<"scroll", "ready">>
    /\ "scroll" \in listeners
    /\ resizeObserver = "observing"
    /\ isVisible

\* the document-level listeners a drag installs
DragListeners == {"mousemove", "mouseup", "touchmove", "touchend"}

\* C18: whenever isDragging is false, none of the document-level mousemove,
\* mouseup, touchmove and touchend listeners is installed.
C18_IdleHasNoDragListeners ==
    ~isDragging => listeners \cap DragListeners = {}

\* the component is active, no drag is in progress, every scroll signal has
\* been delivered and the throttle has no timer pending
Quiet ==
    /\ phase = "mounted"
    /\ targetElement
    /\ contentElement
    /\ ~isDragging
    /\ ~scrollPending
    /\ thr.timerId = -1

\* C19: once the target's offset stays unchanged, every scroll signal has
\* been delivered, the throttle's timer has fired and no drag is active, the
\* stored scrollLeft equals the target's offset from some point on.
C19_EventuallyConsistent == <>[](Quiet => scrollLeft = tScrollLeft)

\* C20: after cleanup has run no notification is emitted and the stored
\* state does not change: not by a throttled callback still pending, not by
\* the resize watcher, not by an element resolution that resumes afterwards.
C20_QuietAfterCleanup ==
    [][ phase = "unmounted" =>
            /\ emits' = <<>>
            /\ refs' = refs
            /\ isVisible' = isVisible
            /\ UNCHANGED dragVars ]_vars

=============================================================================
